---- MODULE Spec2Model ----
(***************************************************************************)
(* Student Dropout Predictor (app.py): the rule predict_promotion, the     *)
(* four SQLite accessors over the students table, and the Streamlit page   *)
(* handlers that call them.                                                *)
(*                                                                         *)
(* Reals are kept in the units of their slider step: school satisfaction   *)
(* in tenths (step 0.1, so 3.0 is 30), attendance and homework in whole    *)
(* percent (step 1.0).                                                     *)
(***************************************************************************)
EXTENDS Integers, Sequences, FiniteSets, TLC

VARIABLES table, now, writes, widgets, out

vars == <<table, now, writes, widgets, out>>

(* ---------------- bounds of the model ---------------- *)
MaxStudentId == 2
MaxSecond == 1

(* ---------------- widget ranges and rule thresholds ---------------- *)
DefaultStudentId == 1
MinSatisfaction == 10
MaxSatisfaction == 50
DefaultSatisfaction == 30
MinAttendance == 0
MaxAttendance == 100
DefaultAttendance == 75
MinFailed == 0
MaxFailed == 10
DefaultFailed == 0
MinCommute == 1
MaxCommute == 120
DefaultCommute == 30
MinDisciplinary == 0
MaxDisciplinary == 10
DefaultDisciplinary == 0
MinHomework == 0
MaxHomework == 100
DefaultHomework == 85

SatisfactionLimit == 30
AttendanceLimit == 70
FailedLimit == 2
CommuteLimit == 40
DisciplinaryLimit == 2
HomeworkLimit == 80

Incomes == {"low", "medium", "high"}

StudentIds == 1..MaxStudentId

Input(sid, sat, att, fc, com, dis, hw, inc) ==
    [student_id |-> sid, satisfaction |-> sat, attendance |-> att, failed_courses |-> fc,
     commute |-> com, disciplinary |-> dis, homework |-> hw,
     family_income |-> inc]

(* Every widget at its extremes and on both sides of its threshold. *)
FormInputs ==
    { Input(sid, sat, att, fc, com, dis, hw, inc) :
        sid \in {DefaultStudentId},
        sat \in {MinSatisfaction, SatisfactionLimit, SatisfactionLimit + 1, MaxSatisfaction},
        att \in {MinAttendance, AttendanceLimit, AttendanceLimit + 1, MaxAttendance},
        fc \in {MinFailed, FailedLimit, FailedLimit + 1, MaxFailed},
        com \in {MinCommute, CommuteLimit, CommuteLimit + 1, MaxCommute},
        dis \in {MinDisciplinary, DisciplinaryLimit, DisciplinaryLimit + 1, MaxDisciplinary},
        hw \in {MinHomework, HomeworkLimit, HomeworkLimit + 1, MaxHomework},
        inc \in Incomes }

(* The submissions used to drive the store: one that passes every clause   *)
(* at its boundary and one that fails the commute clause alone. The rule   *)
(* itself is exercised over FormInputs.                                    *)
Passing(sid) == Input(sid, SatisfactionLimit + 1, AttendanceLimit + 1, FailedLimit,
                      CommuteLimit, DisciplinaryLimit, HomeworkLimit + 1, "low")

StoreInputs ==
    UNION { { Passing(sid),
              [Passing(sid) EXCEPT !.commute = CommuteLimit + 1, !.family_income = "high"] }
            : sid \in StudentIds }

(* The widgets of the Predict Dropout page before the user touches them. *)
DefaultWidgets ==
    Input(DefaultStudentId, DefaultSatisfaction, DefaultAttendance, DefaultFailed,
          DefaultCommute, DefaultDisciplinary, DefaultHomework, "low")

(* ---------------- the classification rule ---------------- *)
(* The rule with the satisfaction clause written >= instead of >. *)
predict_promotion_ge(satisfaction, attendance, failed_courses, commute, disciplinary, homework, income) ==
    IF satisfaction >= SatisfactionLimit /\ attendance > AttendanceLimit
       /\ failed_courses <= FailedLimit /\ commute <= CommuteLimit
       /\ disciplinary <= DisciplinaryLimit /\ homework > HomeworkLimit
    THEN "Promoted"
    ELSE "At Risk of Dropout"

(* The rule with a seventh clause on family income. *)
predict_promotion_income(satisfaction, attendance, failed_courses, commute, disciplinary, homework, income) ==
    IF satisfaction > SatisfactionLimit /\ attendance > AttendanceLimit
       /\ failed_courses <= FailedLimit /\ commute <= CommuteLimit
       /\ disciplinary <= DisciplinaryLimit /\ homework > HomeworkLimit
       /\ income # "low"
    THEN "Promoted"
    ELSE "At Risk of Dropout"

predict_promotion(satisfaction, attendance, failed_courses, commute, disciplinary, homework, income) ==
    IF satisfaction > SatisfactionLimit /\ attendance > AttendanceLimit
       /\ failed_courses <= FailedLimit /\ commute <= CommuteLimit
       /\ disciplinary <= DisciplinaryLimit /\ homework > HomeworkLimit
    THEN "Promoted"
    ELSE "At Risk of Dropout"

(* The marks with the commute mark written < instead of <=. *)
factors_lt(satisfaction, attendance, failed_courses, commute, disciplinary, homework) ==
    << satisfaction > 30, attendance > 70, failed_courses <= 2,
       commute < 40, disciplinary <= 2, homework > 80 >>

(* The six marks of the "Contributing Factors" list, in display order. *)
factors(satisfaction, attendance, failed_courses, commute, disciplinary, homework) ==
    << satisfaction > 30, attendance > 70, failed_courses <= 2,
       commute <= 40, disciplinary <= 2, homework > 80 >>

(* ---------------- the students table ---------------- *)
(* The store's clock reads whole seconds. *)
CURRENT_TIMESTAMP == now

Row(student_id, satisfaction, attendance, failed_courses, commute, disciplinary, homework, family_income, promotion_status, date) ==
    [student_id |-> student_id, school_satisfaction |-> satisfaction,
     attendance_rate |-> attendance, failed_courses |-> failed_courses,
     commute_time |-> commute, disciplinary_incidents |-> disciplinary,
     homework_completion |-> homework, family_income |-> family_income,
     promotion_status |-> promotion_status, prediction_date |-> date]

(* INSERT without OR REPLACE on a table without the primary key. *)
InsertPlain(tbl, row) == tbl \cup {row}

InsertOrReplace(tbl, row) ==
    {r \in tbl : r.student_id # row.student_id} \cup {row}

DeleteWhere(tbl, student_id) ==
    {r \in tbl : r.student_id # student_id}

(* The listing ordered by prediction_date ascending. *)
OrderByDateAsc(tbl) ==
    LET n == Cardinality(tbl) IN
    { s \in [1..n -> tbl] :
        /\ \A i, j \in 1..n : i # j => s[i] # s[j]
        /\ \A i, j \in 1..n : i < j => s[i].prediction_date <= s[j].prediction_date }

(* SELECT * ... ORDER BY prediction_date DESC: every row once, later dates  *)
(* first; SQL leaves the order of rows with equal dates open.              *)
OrderByDateDesc(tbl) ==
    LET n == Cardinality(tbl) IN
    { s \in [1..n -> tbl] :
        /\ \A i, j \in 1..n : i # j => s[i] # s[j]
        /\ \A i, j \in 1..n : i < j => s[i].prediction_date >= s[j].prediction_date }

(* ---------------- the accessors ---------------- *)
(* A call either runs through, or the store fails in sqlite3.connect (no    *)
(* connection exists yet), or it fails in a statement after the connection *)
(* was opened. closed tells whether the call has closed every connection   *)
(* it opened: conn.close() is reached on the success path only.            *)
Outcome(fault, ret, raised, closed, tbl) ==
    [fault |-> fault, ret |-> ret, raised |-> raised, closed |-> closed, table |-> tbl]

initialize_database(tbl) ==
    { Outcome("none", "None", FALSE, TRUE, tbl),
      Outcome("connect", "None", TRUE, TRUE, tbl),
      Outcome("execute", "None", TRUE, FALSE, tbl) }

(* The insert with commute and disciplinary bound to each other's column. *)
insert_student_data_swapped(tbl, student_id, satisfaction, attendance, failed_courses, commute, disciplinary, homework, family_income, promotion_status) ==
    { Outcome("none", TRUE, FALSE, TRUE,
              InsertOrReplace(tbl, Row(student_id, satisfaction, attendance, failed_courses,
                                       disciplinary, commute, homework, family_income,
                                       promotion_status, CURRENT_TIMESTAMP))),
      Outcome("connect", FALSE, FALSE, TRUE, tbl),
      Outcome("execute", FALSE, FALSE, FALSE, tbl) }

(* The insert whose except branch also returns True. *)
insert_student_data_true(tbl, student_id, satisfaction, attendance, failed_courses, commute, disciplinary, homework, family_income, promotion_status) ==
    { Outcome("none", TRUE, FALSE, TRUE,
              InsertOrReplace(tbl, Row(student_id, satisfaction, attendance, failed_courses,
                                       commute, disciplinary, homework, family_income,
                                       promotion_status, CURRENT_TIMESTAMP))),
      Outcome("connect", TRUE, FALSE, TRUE, tbl),
      Outcome("execute", TRUE, FALSE, FALSE, tbl) }

insert_student_data(tbl, student_id, satisfaction, attendance, failed_courses, commute, disciplinary, homework, family_income, promotion_status) ==
    { Outcome("none", TRUE, FALSE, TRUE,
              InsertOrReplace(tbl, Row(student_id, satisfaction, attendance, failed_courses,
                                       commute, disciplinary, homework, family_income,
                                       promotion_status, CURRENT_TIMESTAMP))),
      Outcome("connect", FALSE, FALSE, TRUE, tbl),
      Outcome("execute", FALSE, FALSE, FALSE, tbl) }

get_all_students(tbl) ==
    { Outcome("none", df, FALSE, TRUE, tbl) : df \in OrderByDateDesc(tbl) }
    \cup { Outcome("connect", << >>, FALSE, TRUE, tbl),
           Outcome("execute", << >>, FALSE, FALSE, tbl) }

(* The delete without conn.commit(): the row is back once the connection closes. *)
delete_student_nocommit(tbl, student_id) ==
    { Outcome("none", TRUE, FALSE, TRUE, tbl),
      Outcome("connect", FALSE, FALSE, TRUE, tbl),
      Outcome("execute", FALSE, FALSE, FALSE, tbl) }

delete_student(tbl, student_id) ==
    { Outcome("none", TRUE, FALSE, TRUE, DeleteWhere(tbl, student_id)),
      Outcome("connect", FALSE, FALSE, TRUE, tbl),
      Outcome("execute", FALSE, FALSE, FALSE, tbl) }

(* ---------------- one script run per user interaction ---------------- *)
(* What the caller sees of a call; for get_all_students ret is the number  *)
(* of rows of the DataFrame it returned.                                   *)
Call(fn, key, o) ==
    [fn |-> fn, key |-> key, fault |-> o.fault,
     ret |-> IF fn = "get_all_students" THEN Len(o.ret) ELSE o.ret,
     raised |-> o.raised, closed |-> o.closed]

NoRow == 0 - 1

(* A call that takes no student_id; identifiers start at 1 (min_value=1). *)
NoKey == NoRow

(* The outcome shown whatever the write reported. *)
ShowAlways(saved) == TRUE

(* if insert_student_data(...): the outcome is shown when the write reported success. *)
ShowOutcome(saved) == saved

(* writes lists, oldest first, the latest committed write of each student  *)
(* that has a row, with the clock second it happened in.                   *)
Forget(ws, student_id) == SelectSeq(ws, LAMBDA e : e.student_id # student_id)

Wrote(ws, student_id) == Append(Forget(ws, student_id), [student_id |-> student_id, at |-> now])

(* What a finished script run leaves behind: the table, and on the page    *)
(* the calls it made, the DataFrame it rendered and the prediction outcome. *)
Finish(page, clicked, calls, df, tbl, status, displayed, marks, w, ws) ==
    /\ table' = tbl
    /\ writes' = ws
    /\ widgets' = w
    /\ now' = now
    /\ out' = [page |-> page, clicked |-> clicked, calls |-> calls, df |-> df,
               promotion_status |-> status, displayed |-> displayed, factors |-> marks]

(* A page without the prediction form: its widgets are not rendered, and   *)
(* Streamlit drops their values.                                           *)
Render(page, clicked, calls, df, tbl, ws) ==
    Finish(page, clicked, calls, df, tbl, "none", FALSE, << >>, DefaultWidgets, ws)

Init ==
    /\ table = {}
    /\ now = 0
    /\ writes = << >>
    /\ widgets = DefaultWidgets
    /\ out = [page |-> "Home", clicked |-> "none", calls |-> << >>, df |-> << >>,
              promotion_status |-> "none", displayed |-> FALSE, factors |-> << >>]

Tick ==
    /\ now < MaxSecond
    /\ now' = now + 1
    /\ UNCHANGED <<table, writes, widgets, out>>

PredictAndSave(w) ==
    \E i \in initialize_database(table) :
        IF i.raised
        THEN Render("Predict Dropout", "Predict & Save",
                    << Call("initialize_database", NoKey, i) >>, << >>, i.table, writes)
        ELSE LET promotion_status ==
                     predict_promotion(w.satisfaction, w.attendance, w.failed_courses,
                                       w.commute, w.disciplinary, w.homework, w.family_income)
             IN \E s \in insert_student_data(i.table, w.student_id, w.satisfaction, w.attendance,
                                             w.failed_courses, w.commute, w.disciplinary,
                                             w.homework, w.family_income, promotion_status) :
                    Finish("Predict Dropout", "Predict & Save",
                           << Call("initialize_database", NoKey, i),
                              Call("insert_student_data", w.student_id, s) >>,
                           << >>, s.table, promotion_status, ShowOutcome(s.ret),
                           IF ShowOutcome(s.ret)
                           THEN factors(w.satisfaction, w.attendance, w.failed_courses,
                                        w.commute, w.disciplinary, w.homework)
                           ELSE << >>,
                           w,
                           IF s.fault = "none" THEN Wrote(writes, w.student_id) ELSE writes)

Home ==
    \E i \in initialize_database(table) :
        IF i.raised
        THEN Render("Home", "none", << Call("initialize_database", NoKey, i) >>, << >>,
                    i.table, writes)
        ELSE \E total \in get_all_students(i.table) :
             \E df \in get_all_students(total.table) :
                 Render("Home", "none",
                        << Call("initialize_database", NoKey, i),
                           Call("get_all_students", NoKey, total),
                           Call("get_all_students", NoKey, df) >>,
                        df.ret, df.table, writes)

(* View Database and Analytics both read the table once and render it. *)
ReadPage(page) ==
    \E i \in initialize_database(table) :
        IF i.raised
        THEN Render(page, "none", << Call("initialize_database", NoKey, i) >>, << >>,
                    i.table, writes)
        ELSE \E df \in get_all_students(i.table) :
                 Render(page, "none",
                        << Call("initialize_database", NoKey, i),
                           Call("get_all_students", NoKey, df) >>,
                        df.ret, df.table, writes)

ViewDatabase == ReadPage("View Database")

Analytics == ReadPage("Analytics")

About ==
    \E i \in initialize_database(table) :
        Render("About", "none", << Call("initialize_database", NoKey, i) >>, << >>,
               i.table, writes)

(* The Delete control is on screen when the last run rendered View Database *)
(* with a non-empty DataFrame.                                             *)
DeleteControlShown(o) ==
    /\ o.page = "View Database"
    /\ o.df # << >>

DeleteClick(delete_id) ==
    /\ DeleteControlShown(out)
    /\ \E i \in initialize_database(table) :
        IF i.raised
        THEN Render("View Database", "Delete", << Call("initialize_database", NoKey, i) >>,
                    << >>, i.table, writes)
        ELSE \E df \in get_all_students(i.table) :
            IF df.ret = << >>
            THEN Render("View Database", "Delete",
                        << Call("initialize_database", NoKey, i),
                           Call("get_all_students", NoKey, df) >>,
                        df.ret, df.table, writes)
            ELSE \E d \in delete_student(df.table, delete_id) :
                LET first == << Call("initialize_database", NoKey, i),
                                Call("get_all_students", NoKey, df),
                                Call("delete_student", delete_id, d) >>
                    ws == IF \E r \in d.table : r.student_id = delete_id
                          THEN writes
                          ELSE Forget(writes, delete_id)
                IN IF ~d.ret
                   THEN Render("View Database", "Delete", first, df.ret, d.table, ws)
                   ELSE \* st.rerun(): the script runs again from the top
                        \E i2 \in initialize_database(d.table) :
                            IF i2.raised
                            THEN Render("View Database", "Delete",
                                        first \o << Call("initialize_database", NoKey, i2) >>,
                                        << >>, i2.table, ws)
                            ELSE \E df2 \in get_all_students(i2.table) :
                                     Render("View Database", "Delete",
                                            first \o << Call("initialize_database", NoKey, i2),
                                                        Call("get_all_students", NoKey, df2) >>,
                                            df2.ret, df2.table, ws)

Next ==
    \/ Tick
    \/ \E w \in StoreInputs : PredictAndSave(w)
    \/ Home
    \/ ViewDatabase
    \/ Analytics
    \/ About
    \/ \E delete_id \in StudentIds : DeleteClick(delete_id)

Spec == Init /\ [][Next]_vars

(* The rule on its own: the form holds any input of FormInputs and the     *)
(* user presses Predict & Save.                                            *)
InitRule ==
    /\ table = {}
    /\ now = 0
    /\ writes = << >>
    /\ widgets \in FormInputs
    /\ out = [page |-> "Predict Dropout", clicked |-> "none", calls |-> << >>, df |-> << >>,
              promotion_status |-> "none", displayed |-> FALSE, factors |-> << >>]

NextRule == PredictAndSave(widgets)

SpecRule == InitRule /\ [][NextRule]_vars

(* ======================= properties ======================= *)
Last(calls) == calls[Len(calls)]

(* The last run pressed Predict & Save and got as far as the rule. *)
Predicted(o) == o.clicked = "Predict & Save" /\ Len(o.calls) = 2

Saved(o) == Predicted(o) /\ o.calls[2].ret

(* The last run ended in a listing that the store answered. *)
Listed(o) ==
    /\ Len(o.calls) >= 2
    /\ Last(o.calls).fn = "get_all_students"
    /\ Last(o.calls).fault = "none"

(* The last run pressed Delete and got as far as delete_student. *)
DeleteCalled(o) == o.clicked = "Delete" /\ Len(o.calls) >= 3

AllPass(w) ==
    /\ w.satisfaction > 30 /\ w.attendance > 70 /\ w.failed_courses <= 2
    /\ w.commute <= 40 /\ w.disciplinary <= 2 /\ w.homework > 80

(* C1: for every input in the widget ranges predict_promotion returns       *)
(* "Promoted" exactly when satisfaction > 3.0, attendance > 70, failed      *)
(* courses <= 2, commute <= 40, disciplinary <= 2 and homework > 80 all     *)
(* hold, and "At Risk of Dropout" otherwise (so one failing clause, or a    *)
(* value on the failing side of a boundary, gives "At Risk of Dropout").   *)
C1_RuleIsSixClauses ==
    Predicted(out) =>
        /\ AllPass(widgets) => out.promotion_status = "Promoted"
        /\ ~AllPass(widgets) => out.promotion_status = "At Risk of Dropout"

(* Satisfaction exactly 3.0 with the other five clauses on their passing   *)
(* boundary is classified "At Risk of Dropout".                            *)
C1_Witness ==
    /\ Predicted(out)
    /\ widgets.satisfaction = 30 /\ widgets.attendance = 71
    /\ widgets.failed_courses = 2 /\ widgets.commute = 40
    /\ widgets.disciplinary = 2 /\ widgets.homework = 81
    /\ out.promotion_status = "At Risk of Dropout"

RuleOfRow(r) ==
    predict_promotion(r.school_satisfaction, r.attendance_rate, r.failed_courses,
                      r.commute_time, r.disciplinary_incidents, r.homework_completion,
                      r.family_income)

(* C2: every stored row's promotion_status is the rule applied to that     *)
(* row's own seven stored inputs.                                          *)
C2_StatusMatchesInputs ==
    \A r \in table : r.promotion_status = RuleOfRow(r)

(* A row stored as "At Risk of Dropout" next to one stored as "Promoted". *)
C2_Witness ==
    /\ \E r \in table : r.promotion_status = "Promoted"
    /\ \E r \in table : r.promotion_status = "At Risk of Dropout"

UniqueKey(tbl) ==
    \A r1, r2 \in tbl : r1.student_id = r2.student_id => r1 = r2

PayloadRow(w, status, date) ==
    Row(w.student_id, w.satisfaction, w.attendance, w.failed_courses, w.commute,
        w.disciplinary, w.homework, w.family_income, status, date)

(* C3: the table never holds two rows with one student_id; right after a   *)
(* successful upsert every listing holds exactly one row with the          *)
(* submitted student_id, that row is exactly the submitted payload, and    *)
(* the rows of other students are as before.                               *)
C3_UpsertReplaces ==
    [][ /\ UniqueKey(table')
        /\ (now' = now /\ Saved(out')) =>
              LET w == widgets'
                  row == PayloadRow(w, out'.promotion_status, now)
              IN /\ \A df \in OrderByDateDesc(table') :
                        /\ Cardinality({k \in 1..Len(df) : df[k].student_id = w.student_id}) = 1
                        /\ \A k \in 1..Len(df) : df[k].student_id = w.student_id => df[k] = row
                 /\ {r \in table' : r.student_id # w.student_id}
                        = {r \in table : r.student_id # w.student_id}
      ]_vars

(* A second submission for a student replaced a different first payload    *)
(* while another student's row is in the table.                            *)
C3_Witness ==
    /\ Saved(out)
    /\ Cardinality(table) = 2
    /\ \E r \in table : /\ r.student_id = widgets.student_id
                        /\ r.family_income = "high"
                        /\ Len(writes) = 2
                        /\ r.prediction_date = 1

(* C4: delete_student removes exactly the row with the given key and       *)
(* leaves every other row alone; with no such row the table is unchanged   *)
(* and the call still returns True.                                        *)
C4_DeleteFrame ==
    [][ (now' = now /\ DeleteCalled(out')) =>
            LET d == out'.calls[3]
                present == \E r \in table : r.student_id = d.key
            IN /\ d.fault = "none" =>
                     /\ d.ret = TRUE
                     /\ table' = {r \in table : r.student_id # d.key}
               /\ (d.fault = "none" /\ ~present) => table' = table
               /\ d.fault # "none" => table' = table
      ]_vars

(* Delete returned True for a key that no listed row has: the listing     *)
(* after it has as many rows as the listing before it.                     *)
C4_Witness ==
    /\ DeleteCalled(out)
    /\ out.calls[3].ret = TRUE
    /\ out.calls[2].fault = "none"
    /\ Listed(out)
    /\ Len(out.df) = out.calls[2].ret
    /\ \A k \in 1..Len(out.df) : out.df[k].student_id # out.calls[3].key

FailureValue(fn) == IF fn = "get_all_students" THEN 0 ELSE FALSE

Accessors == {"insert_student_data", "get_all_students", "delete_student"}

(* C6: a store failure inside insert_student_data, get_all_students or     *)
(* delete_student is never raised to the caller: the call returns False    *)
(* (an empty result for get_all_students), and a failed insert or delete   *)
(* leaves the table as it was.                                             *)
C6_FailuresAreReturned ==
    [][ now' = now =>
          \A k \in 1..Len(out'.calls) :
              LET c == out'.calls[k] IN
              c.fn \in Accessors =>
                  /\ ~c.raised
                  /\ c.fault # "none" => c.ret = FailureValue(c.fn)
                  /\ (c.fault # "none" /\ c.fn # "get_all_students") => table' = table
      ]_vars

(* A failed insert over a non-empty table. *)
C6_Witness ==
    /\ Predicted(out)
    /\ out.calls[2].fault = "execute"
    /\ out.calls[2].ret = FALSE
    /\ table # {}

(* C7: every call that opened a connection has closed it when it returns,  *)
(* on the success path and on the failure path alike.                      *)
C7_ConnectionsClosed ==
    \A k \in 1..Len(out.calls) : ~out.calls[k].raised => out.calls[k].closed

WritePos(student_id) ==
    CHOOSE k \in 1..Len(writes) : writes[k].student_id = student_id

(* C8 as stated: of two listed students (their latest writes happened one  *)
(* after the other) the more recently written one comes first.             *)
C8_LaterWriteFirst ==
    Listed(out) =>
        \A i, j \in 1..Len(out.df) :
            i < j => WritePos(out.df[i].student_id) > WritePos(out.df[j].student_id)

(* C8: a listing holds every stored row exactly once, later prediction_date *)
(* first; a row's prediction_date is the clock second of its latest        *)
(* upsert, so of two students last written in different clock seconds the  *)
(* more recently written one comes first; an empty table lists as empty.   *)
C8_ListingOrder ==
    /\ \A r \in table :
          \E k \in 1..Len(writes) :
              writes[k] = [student_id |-> r.student_id, at |-> r.prediction_date]
    /\ Listed(out) =>
          /\ Len(out.df) = Cardinality(table)
          /\ \A r \in table : Cardinality({k \in 1..Len(out.df) : out.df[k] = r}) = 1
          /\ \A i, j \in 1..Len(out.df) :
                i < j => out.df[i].prediction_date >= out.df[j].prediction_date
          /\ \A i, j \in 1..Len(out.df) :
                LET wi == WritePos(out.df[i].student_id)
                    wj == WritePos(out.df[j].student_id)
                IN (i < j /\ writes[wi].at # writes[wj].at) => wi > wj

(* Two students written in different seconds are listed, the later first. *)
C8_Witness ==
    /\ Listed(out)
    /\ Len(out.df) = 2
    /\ out.df[1].prediction_date > out.df[2].prediction_date
    /\ WritePos(out.df[1].student_id) > WritePos(out.df[2].student_id)

(* C9: an outcome is on screen only if the write reported success, and     *)
(* then the table holds a row for that student with the displayed status;  *)
(* when the write fails nothing is displayed and the table is unchanged.   *)
C9_DisplayAfterSave ==
    [][ /\ out'.displayed =>
              /\ Saved(out')
              /\ \E r \in table' : /\ r.student_id = widgets'.student_id
                                   /\ r.promotion_status = out'.promotion_status
        /\ (now' = now /\ Predicted(out') /\ ~out'.calls[2].ret) =>
              /\ ~out'.displayed
              /\ out'.factors = << >>
              /\ table' = table
      ]_vars

(* An outcome is on screen for a student whose row is in the table. *)
C9_Witness ==
    /\ out.displayed
    /\ out.promotion_status = "At Risk of Dropout"
    /\ \E r \in table : r.student_id = widgets.student_id

(* C10: the displayed status is "Promoted" exactly when all six displayed  *)
(* factor marks pass, and "At Risk of Dropout" comes with a failing mark.  *)
C10_FactorsAgree ==
    out.displayed =>
        /\ Len(out.factors) = 6
        /\ out.promotion_status = "Promoted" <=> (\A k \in 1..6 : out.factors[k])
        /\ out.promotion_status = "At Risk of Dropout" => (\E k \in 1..6 : ~out.factors[k])

(* A displayed at-risk outcome whose only failing mark is the commute. *)
C10_Witness ==
    /\ out.displayed
    /\ out.promotion_status = "At Risk of Dropout"
    /\ out.factors = << TRUE, TRUE, TRUE, FALSE, TRUE, TRUE >>
    /\ widgets.commute = 41

====
